---- MODULE Spec2Model ----
(***************************************************************************)
(* PyGnuplot.py: the figure registry (_FigureList), the process handles    *)
(* (_GnuPlot) and the module-level operations figure, c, s, plot, p, pdf.  *)
(*                                                                         *)
(* A _GnuPlot object is a record [term, stdin]: stdin is the list of the   *)
(* texts written so far to the input stream of its gnuplot process.  The   *)
(* objects live in the sequence gnuplots, in order of construction: every  *)
(* successful Popen appends one, so Len(gnuplots) is the number of         *)
(* processes started and an index into gnuplots is an object identity.     *)
(* An optional value (idx=None, number=None, a call's result) is None      *)
(* (the empty tuple) or <<v>>.                                             *)
(***************************************************************************)
EXTENDS Integers, Sequences, FiniteSets, TLC

VARIABLES
    instances,    \* fl.instances: figure id -> _GnuPlot object (index into gnuplots)
    current_idx,  \* fl.current_idx
    current_fig,  \* fl.current_fig (index into gnuplots)
    gnuplots,     \* every _GnuPlot object constructed so far
    files,        \* the file system: file name -> lines written
    last,         \* the most recent public call: its arguments, the exception it
                  \* raised (exc: "none", "launch", "write", "file"), its result
                  \* and the state before it
    noneRun,      \* k when the history is exactly k returned calls figure(), else -1
    nops,         \* number of calls made so far
    pc,           \* per thread: its position inside get_figure
    frame,        \* per thread: the locals of its get_figure call
    overlap       \* some get_figure call was started while another was in progress

vars == <<instances, current_idx, current_fig, gnuplots, files, last, noneRun,
          nops, pc, frame, overlap>>

(***************************** bounds and inputs ***************************)
MaxOps == 3
MaxId == 2
MaxCalls == 3

None == <<>>
Some(v) == <<v>>

DEFAULT_TERM == "x11"

\* the arguments the calls are made with
Ids == 0..MaxId
Numbers == {None} \cup {Some(k) : k \in Ids}
Commands == {"plot sin(x)", "replot"}
Terms == {DEFAULT_TERM, "wxt"}
\* width, height, fontsize: the defaults of p and pdf
Sizes == {[width |-> 14, height |-> 9, fontsize |-> 12]}
\* data: a list of columns
Datasets == {<< <<1, 2, 3>>, <<4, 5, 6>> >>, << <<1, 2>>, <<7>> >>}
\* TemporaryFile().name as formatted into the plot command
TmpNames == {"3"}
Threads == {1, 2}

(******************************* pure helpers ******************************)
\* str.format of an int or of None
str(v) == IF v = None THEN "None" ELSE ToString(v[1])

\* print(text, file=...): the text, then a newline
print_line(text) == text \o "\n"

\* _GnuPlot.__init__: the term is kept, one gnuplot process is started
GnuPlot(term) == [term |-> term, stdin |-> <<>>]

\* max(self.instances): the largest key; undefined on an empty dict
max_key(inst) == CHOOSE m \in DOMAIN inst : \A k \in DOMAIN inst : k <= m

new_idx_same(inst) == max_key(inst)
\* line 54: idx = max(self.instances) + 1
new_idx(inst) == max_key(inst) + 1

setdefault_overwrite(inst, idx, default) ==
    [k \in DOMAIN inst \cup {idx} |-> IF k = idx THEN default ELSE inst[k]]
\* dict.setdefault(idx, default): the dict afterwards
setdefault(inst, idx, default) ==
    IF idx \in DOMAIN inst
    THEN inst
    ELSE [k \in DOMAIN inst \cup {idx} |-> IF k = idx THEN default ELSE inst[k]]

setdefault_ret_default(inst, idx, default) == default
\* dict.setdefault(idx, default): the value it returns
setdefault_ret(inst, idx, default) ==
    IF idx \in DOMAIN inst THEN inst[idx] ELSE default

\* the registry and the objects as one value
World == [instances |-> instances, current_idx |-> current_idx,
          current_fig |-> current_fig, gnuplots |-> gnuplots]

\* _FigureList.get_figure when Popen succeeds: the state afterwards (w) and
\* the instance returned (ret).  The default _GnuPlot() is an argument of
\* setdefault, so it is constructed on every call.
get_figure(w, idx) ==
    LET i == IF idx = None THEN new_idx(w.instances) ELSE idx[1]
        heap == Append(w.gnuplots, GnuPlot(DEFAULT_TERM))
        new == Len(heap)
        inst == setdefault(w.instances, i, new)
        instance == setdefault_ret(w.instances, i, new)
    IN [w |-> [instances |-> inst, current_idx |-> i,
               current_fig |-> instance, gnuplots |-> heap],
        ret |-> instance]

c_no_newline(w, command) ==
    [w EXCEPT !.gnuplots[w.current_fig].stdin = Append(@, command)]
\* c(command) when the write succeeds
c(w, command) ==
    [w EXCEPT !.gnuplots[w.current_fig].stdin = Append(@, print_line(command))]

RECURSIVE c_each(_, _, _)
c_each(w, cmds, n) ==
    IF n = 0 THEN w ELSE c(c_each(w, cmds, n - 1), cmds[n])

c_seq_swallow(w, cmds, nOk) == c_each(w, cmds, Len(cmds))
\* consecutive calls c(cmds[1]); c(cmds[2]); ... of which the first nOk
\* succeed: the next one raises and the rest are never reached
c_seq(w, cmds, nOk) == c_each(w, cmds, nOk)

\* line 69: "set term {} {}".format(fig.term, number)
figure_cmd(term, number) == "set term " \o term \o " " \o str(number)

p_cmds_reordered(filename, width, height, fontsize, term) ==
    << "set out '" \o filename \o "';",
       "set term postscript size " \o ToString(width) \o "cm, "
           \o ToString(height) \o "cm color solid " \o ToString(fontsize)
           \o " font 'Calibri';",
       "replot;",
       "set term " \o term \o "; replot" >>
\* lines 104-109: the four commands of p
p_cmds(filename, width, height, fontsize, term) ==
    << "set term postscript size " \o ToString(width) \o "cm, "
           \o ToString(height) \o "cm color solid " \o ToString(fontsize)
           \o " font 'Calibri';",
       "set out '" \o filename \o "';",
       "replot;",
       "set term " \o term \o "; replot" >>

\* lines 117-122: the four commands of pdf
pdf_cmds(filename, width, height, fontsize, term) ==
    << "set term pdf enhanced size " \o ToString(width) \o "cm, "
           \o ToString(height) \o "cm color solid fsize " \o ToString(fontsize)
           \o " fname 'Helvetica';",
       "set out '" \o filename \o "';",
       "replot;",
       "set term " \o term \o "; replot" >>

\* zip(*data): as many rows as the shortest column has items
RECURSIVE min_len(_)
min_len(data) ==
    IF Len(data) = 0 THEN 0
    ELSE IF Len(data) = 1 THEN Len(data[1])
    ELSE LET m == min_len(Tail(data))
         IN IF Len(data[1]) < m THEN Len(data[1]) ELSE m

\* print(*items): the items of row r, separated by one space, then a newline
RECURSIVE row_text(_, _, _)
row_text(data, r, col) ==
    IF col > Len(data) THEN "\n"
    ELSE (IF col = 1 THEN "" ELSE " ") \o ToString(data[col][r])
         \o row_text(data, r, col + 1)

\* lines 88-90: the lines s writes
s_lines(data) == [r \in 1..min_len(data) |-> row_text(data, r, 1)]

\* open(filename, "w") and the writes of s
write_file(fs, filename, lines) ==
    [f \in DOMAIN fs \cup {filename} |-> IF f = filename THEN lines ELSE fs[f]]

(******************************** the state ********************************)
NoCall == [op |-> "init", number |-> None, cmds |-> <<>>, term |-> "",
           nOk |-> 0, exc |-> "none", ret |-> None,
           pre |-> [instances |-> <<>>, current_idx |-> 0, current_fig |-> 0,
                    gnuplots |-> <<>>]]

\* line 125, fl = _FigureList(): lines 36-40
Init ==
    /\ gnuplots = << GnuPlot(DEFAULT_TERM) >>
    /\ instances = [k \in {0} |-> 1]
    /\ current_idx = 0
    /\ current_fig = 1
    /\ files = [f \in {} |-> <<>>]
    /\ last = NoCall
    /\ noneRun = 0
    /\ nops = 0
    /\ pc = [t \in Threads |-> "idle"]
    /\ frame = [t \in Threads |-> [idx |-> None, new |-> 0, instance |-> 0]]
    /\ overlap = FALSE

SetWorld(w) ==
    /\ instances' = w.instances
    /\ current_idx' = w.current_idx
    /\ current_fig' = w.current_fig
    /\ gnuplots' = w.gnuplots

Called(op, number, cmds, term, nOk, exc, ret) ==
    /\ last' = [op |-> op, number |-> number, cmds |-> cmds, term |-> term,
                nOk |-> nOk, exc |-> exc, ret |-> ret, pre |-> World]
    /\ noneRun' = IF op = "figure" /\ number = None /\ exc = "none" /\ noneRun >= 0
                  THEN noneRun + 1 ELSE -1
    /\ nops' = nops + 1
    /\ UNCHANGED <<pc, frame, overlap>>

(***************************** public operations ***************************)
\* fl.get_figure(idx); Popen raises (launch = FALSE) before anything is stored
GetFigure(idx, launch) ==
    /\ nops < MaxOps
    /\ IF launch
       THEN LET r == get_figure(World, idx)
            IN /\ SetWorld(r.w)
               /\ Called("get_figure", idx, <<>>, "", 0, "none", Some(r.ret))
       ELSE /\ UNCHANGED <<instances, current_idx, current_fig, gnuplots>>
            /\ Called("get_figure", idx, <<>>, "", 0, "launch", None)
    /\ UNCHANGED files

\* figure(number): get_figure, then one command, then `return number`.
\* outcome: "none", or the call that raises: "launch" (Popen), "write" (print)
Figure(number, outcome) ==
    /\ nops < MaxOps
    /\ IF outcome = "launch"
       THEN /\ UNCHANGED <<instances, current_idx, current_fig, gnuplots>>
            /\ Called("figure", number, <<>>, "", 0, "launch", None)
       ELSE LET r == get_figure(World, number)
                cmd == figure_cmd(r.w.gnuplots[r.ret].term, number)
            IN IF outcome = "none"
               THEN /\ SetWorld(c_seq(r.w, <<cmd>>, 1))
                    /\ Called("figure", number, <<cmd>>, "", 1, "none", number)
               ELSE /\ SetWorld(c_seq(r.w, <<cmd>>, 0))
                    /\ Called("figure", number, <<cmd>>, "", 0, "write", None)
    /\ UNCHANGED files

\* c(command)
C(command, write) ==
    /\ nops < MaxOps
    /\ SetWorld(c_seq(World, <<command>>, IF write THEN 1 ELSE 0))
    /\ Called("c", None, <<command>>, "", IF write THEN 1 ELSE 0,
              IF write THEN "none" ELSE "write", None)
    /\ UNCHANGED files

\* p(filename, width, height, fontsize, term): nOk of its writes succeed
P(filename, size, term, nOk) ==
    /\ nops < MaxOps
    /\ LET cmds == p_cmds(filename, size.width, size.height, size.fontsize, term)
       IN /\ SetWorld(c_seq(World, cmds, nOk))
          /\ Called("p", None, cmds, term, nOk,
                    IF nOk = Len(cmds) THEN "none" ELSE "write", None)
    /\ UNCHANGED files

\* pdf(filename, width, height, fontsize, term)
Pdf(filename, size, term, nOk) ==
    /\ nops < MaxOps
    /\ LET cmds == pdf_cmds(filename, size.width, size.height, size.fontsize, term)
       IN /\ SetWorld(c_seq(World, cmds, nOk))
          /\ Called("pdf", None, cmds, term, nOk,
                    IF nOk = Len(cmds) THEN "none" ELSE "write", None)
    /\ UNCHANGED files

\* s(data, filename)
S(data, filename) ==
    /\ nops < MaxOps
    /\ files' = write_file(files, filename, s_lines(data))
    /\ Called("s", None, <<>>, "", 0, "none", None)
    /\ UNCHANGED <<instances, current_idx, current_fig, gnuplots>>

\* plot(data): s writes the data to the temporary file f.name, one plot
\* command is sent, and the temporary file is closed, after which it is gone.
\* outcome: "none", or where the call raises: "open" (s cannot open f.name),
\* "write" (the print of c), "close" (the file descriptor that s has already
\* closed is closed again when the with block ends, after the command is sent)
Plot(data, name, outcome) ==
    /\ nops < MaxOps
    /\ LET cmd == "plot '" \o name \o "' w lp"
           nOk == IF outcome \in {"none", "close"} THEN 1 ELSE 0
       IN IF outcome = "open"
          THEN /\ UNCHANGED <<instances, current_idx, current_fig, gnuplots>>
               /\ Called("plot", None, <<>>, "", 0, "file", None)
          ELSE /\ SetWorld(c_seq(World, <<cmd>>, nOk))
               /\ Called("plot", None, <<cmd>>, "", nOk,
                         CASE outcome = "none" -> "none"
                           [] outcome = "write" -> "write"
                           [] OTHER -> "file",
                         None)
    /\ UNCHANGED files

Next ==
    \/ \E idx \in Numbers, launch \in BOOLEAN : GetFigure(idx, launch)
    \/ \E number \in Numbers, outcome \in {"none", "launch", "write"} :
          Figure(number, outcome)
    \/ \E command \in Commands, write \in BOOLEAN : C(command, write)
    \/ \E term \in Terms, size \in Sizes, nOk \in 0..4 : P("tmp.ps", size, term, nOk)
    \/ \E term \in Terms, size \in Sizes, nOk \in 0..4 : Pdf("tmp.pdf", size, term, nOk)
    \/ \E data \in Datasets : S(data, "tmp.dat")
    \/ \E data \in Datasets, name \in TmpNames,
          outcome \in {"none", "open", "write", "close"} : Plot(data, name, outcome)

Spec == Init /\ [][Next]_vars

(********************* reading the last call, for the claims ***************)
Pre == last.pre

\* a call of get_figure or figure whose selection took effect
Selected == last.op \in {"get_figure", "figure"} /\ last.exc # "launch"

LargestOf(ks) == CHOOSE m \in ks : \A k \in ks : k <= m

\* the id the last selection call resolves to
Resolved ==
    IF last.number = None THEN LargestOf(DOMAIN Pre.instances) + 1
    ELSE last.number[1]

\* what object h had received before the last call
PreStdin(h) == IF h \in 1..Len(Pre.gnuplots) THEN Pre.gnuplots[h].stdin ELSE <<>>

\* the last call wrote exactly `texts`, in this order, to object h and
\* nothing to any other object
WroteOnly(h, texts) ==
    \A g \in 1..Len(gnuplots) :
        gnuplots[g].stdin = PreStdin(g) \o (IF g = h THEN texts ELSE <<>>)

RegistryUnchanged ==
    /\ instances = Pre.instances
    /\ current_idx = Pre.current_idx
    /\ current_fig = Pre.current_fig

\* the first three texts of an export with the default size
ExportHead(op) ==
    IF op = "p"
    THEN << "set term postscript size 14cm, 9cm color solid 12 font 'Calibri';\n",
            "set out 'tmp.ps';\n", "replot;\n" >>
    ELSE << "set term pdf enhanced size 14cm, 9cm color solid fsize 12 fname 'Helvetica';\n",
            "set out 'tmp.pdf';\n", "replot;\n" >>

(********************************* claims **********************************)
\* C1 (as stated): while the history consists only of returned calls
\* figure(), the k-th call returns the integer k (1 for the first, one more
\* each time) and current_idx equals the returned value.
C1_FigureNoneReturnsNextId ==
    noneRun >= 1 => /\ last.ret = Some(noneRun)
                    /\ current_idx = noneRun

\* C2 (as stated): selecting an id that is already a key starts no process
\* and keeps instances[k]; hence the number of processes started equals the
\* number of registry entries.
C2_ExistingIdStartsNoProcess ==
    /\ (Selected /\ Resolved \in DOMAIN Pre.instances) =>
           /\ Len(gnuplots) = Len(Pre.gnuplots)
           /\ instances[Resolved] = Pre.instances[Resolved]
    /\ Len(gnuplots) = Cardinality(DOMAIN instances)

\* C3: selecting an integer id that is not a key inserts exactly one entry,
\* at that id, holding a fresh object with the default terminal; every entry
\* that existed before any call is still there afterwards with its object.
C3_NewIdInsertsOneEntry ==
    /\ (Selected /\ last.number # None /\ Resolved \notin DOMAIN Pre.instances) =>
           /\ DOMAIN instances = DOMAIN Pre.instances \cup {Resolved}
           /\ instances[Resolved] \in 1..Len(gnuplots)
           /\ instances[Resolved] \notin 1..Len(Pre.gnuplots)
           /\ gnuplots[instances[Resolved]].term = DEFAULT_TERM
    /\ last.op # "init" =>
           \A k \in DOMAIN Pre.instances :
               k \in DOMAIN instances /\ instances[k] = Pre.instances[k]

C3_Witness ==
    /\ last.op = "get_figure" /\ last.exc = "none"
    /\ last.number = Some(1)
    /\ 1 \notin DOMAIN Pre.instances
    /\ 2 \in DOMAIN Pre.instances
    /\ DOMAIN instances = {0, 1, 2}

\* C4: c(command) appends the command followed by one newline to the stream
\* of the object that is current when it is called, which is the figure
\* selected last, appends nothing to any other stream, creates no object and
\* leaves instances, current_idx and current_fig as they were.
C4_DispatchGoesToCurrent ==
    (last.op = "c" /\ last.exc = "none") =>
        /\ WroteOnly(Pre.current_fig, << last.cmds[1] \o "\n" >>)
        /\ Pre.current_fig = Pre.instances[Pre.current_idx]
        /\ Len(gnuplots) = Len(Pre.gnuplots)
        /\ RegistryUnchanged

\* after figure(1); figure(0); c("plot sin(x)"): the command is in the
\* stream of figure 0 and not in that of figure 1
C4_Witness ==
    /\ last.op = "c" /\ last.exc = "none"
    /\ nops = 3
    /\ DOMAIN instances = {0, 1}
    /\ current_idx = 0
    /\ gnuplots[instances[1]].stdin = << "set term x11 1\n" >>
    /\ gnuplots[instances[0]].stdin = << "set term x11 0\n", "plot sin(x)\n" >>

\* C5: in every state of single-threaded use current_idx is a key and
\* current_fig is the object stored under it; after a selection they
\* designate the id that call resolved to, and no other call moves them.
C5_CurrentPairConsistent ==
    /\ current_idx \in DOMAIN instances
    /\ current_fig = instances[current_idx]
    /\ Selected => current_idx = Resolved
    /\ (last.op # "init" /\ ~Selected) =>
           current_idx = Pre.current_idx /\ current_fig = Pre.current_fig

\* an existing id other than the current one is selected again
C5_Witness ==
    /\ last.op = "get_figure" /\ last.exc = "none"
    /\ last.number = Some(0)
    /\ Pre.current_idx = 1
    /\ current_idx = 0
    /\ current_fig = 1

\* C6 (as stated): a completed export has sent four texts to the current
\* figure, the last of which sets the terminal back to that figure's own
\* terminal, and has left the registry alone.
C6_ExportRestoresFigureTerminal ==
    (last.op \in {"p", "pdf"} /\ last.exc = "none") =>
        /\ WroteOnly(Pre.current_fig,
               ExportHead(last.op) \o
               << "set term " \o Pre.gnuplots[Pre.current_fig].term \o "; replot\n" >>)
        /\ RegistryUnchanged

\* C6 (amended): a completed export has sent four texts to the current
\* figure: the output format, the output file, replot, and "set term <term
\* argument>; replot"; with the argument left at DEFAULT_TERM that is the
\* terminal label of the figure.  The registry is left alone and no object
\* is created.
C6_ExportSendsTermArgument ==
    (last.op \in {"p", "pdf"} /\ last.exc = "none") =>
        /\ WroteOnly(Pre.current_fig,
               ExportHead(last.op) \o << "set term " \o last.term \o "; replot\n" >>)
        /\ last.term = DEFAULT_TERM =>
               last.term = gnuplots[Pre.current_fig].term
        /\ Pre.current_fig = Pre.instances[Pre.current_idx]
        /\ Len(gnuplots) = Len(Pre.gnuplots)
        /\ RegistryUnchanged

C6_Witness ==
    /\ last.op = "p" /\ last.exc = "none"
    /\ last.term = "wxt"
    /\ current_idx = 1
    /\ Len(gnuplots[instances[1]].stdin) = 5
    /\ gnuplots[instances[0]].stdin = <<>>

\* C7: entry 0, seeded at startup (when it is the only entry and current),
\* is present in every state, so max() is never taken over an empty table,
\* and the id allocated when no id is given was not a key before.
C7_RegistryNeverEmpty ==
    /\ 0 \in DOMAIN instances
    /\ instances[0] = 1
    /\ last.op = "init" => DOMAIN instances = {0} /\ current_idx = 0
    /\ (Selected /\ last.number = None) =>
           /\ DOMAIN Pre.instances # {}
           /\ current_idx \notin DOMAIN Pre.instances
           /\ current_idx \in DOMAIN instances

C7_Witness ==
    /\ last.op = "figure" /\ last.exc = "none"
    /\ last.number = None
    /\ Cardinality(DOMAIN Pre.instances) = 2
    /\ Cardinality(DOMAIN instances) = 3

\* C9: a failure ends the call with no result and undoes nothing.  A failed
\* launch leaves the registry and the objects as they were; a failed write in
\* figure leaves the figure inserted and current, with nothing written; a
\* failed write in p or pdf leaves the texts already sent and sends no more.
C9_FailuresUndoNothing ==
    /\ last.exc # "none" => last.ret = None
    /\ last.exc = "launch" => World = Pre
    /\ (last.op = "figure" /\ last.exc = "write") =>
           /\ Resolved \in DOMAIN instances
           /\ current_idx = Resolved
           /\ current_fig = instances[Resolved]
           /\ WroteOnly(current_fig, <<>>)
    /\ (last.op \in {"p", "pdf"} /\ last.exc = "write") =>
           /\ last.nOk < 4
           /\ WroteOnly(Pre.current_fig, SubSeq(ExportHead(last.op), 1, last.nOk))
           /\ RegistryUnchanged

\* figure(1) fails to write after inserting figure 1
C9_Witness ==
    /\ last.op = "figure" /\ last.exc = "write"
    /\ last.number = Some(1)
    /\ 1 \notin DOMAIN Pre.instances
    /\ 1 \in DOMAIN instances
    /\ current_idx = 1

\* C10 (as stated): a returned call figure(number) has sent exactly one text,
\* "set term <terminal> <resolved id>", to the figure it selected, and that
\* id is current_idx.
C10_FigureSendsResolvedId ==
    (last.op = "figure" /\ last.exc = "none") =>
        /\ current_idx = Resolved
        /\ WroteOnly(instances[Resolved],
               << "set term " \o gnuplots[instances[Resolved]].term \o " "
                  \o ToString(Resolved) \o "\n" >>)

(************** get_figure run by several threads, line by line ************)
Quiescent == \A t \in Threads : pc[t] = "idle"

SeqVars == <<files, last, noneRun>>

\* a thread calls fl.get_figure(idx)
Call(t, idx) ==
    /\ pc[t] = "idle"
    /\ nops < MaxCalls
    /\ nops' = nops + 1
    /\ frame' = [frame EXCEPT ![t] = [idx |-> idx, new |-> 0, instance |-> 0]]
    /\ pc' = [pc EXCEPT ![t] = IF idx = None THEN "L54" ELSE "L55_new"]
    /\ overlap' = (overlap \/ \E u \in Threads \ {t} : pc[u] # "idle")
    /\ UNCHANGED <<instances, current_idx, current_fig, gnuplots, SeqVars>>

\* line 54: idx = max(self.instances) + 1
L54(t) ==
    /\ pc[t] = "L54"
    /\ frame' = [frame EXCEPT ![t].idx = Some(new_idx(instances))]
    /\ pc' = [pc EXCEPT ![t] = "L55_new"]
    /\ UNCHANGED <<instances, current_idx, current_fig, gnuplots, SeqVars, nops, overlap>>

\* line 55, the argument _GnuPlot(): a process is started, or Popen raises
\* and the call ends
L55_new(t) ==
    /\ pc[t] = "L55_new"
    /\ \/ /\ gnuplots' = Append(gnuplots, GnuPlot(DEFAULT_TERM))
          /\ frame' = [frame EXCEPT ![t].new = Len(gnuplots) + 1]
          /\ pc' = [pc EXCEPT ![t] = "L55_setdefault"]
       \/ /\ pc' = [pc EXCEPT ![t] = "idle"]
          /\ UNCHANGED <<gnuplots, frame>>
    /\ UNCHANGED <<instances, current_idx, current_fig, SeqVars, nops, overlap>>

\* line 55: instance = self.instances.setdefault(idx, <the new object>)
L55_setdefault(t) ==
    /\ pc[t] = "L55_setdefault"
    /\ instances' = setdefault(instances, frame[t].idx[1], frame[t].new)
    /\ frame' = [frame EXCEPT ![t].instance =
                     setdefault_ret(instances, frame[t].idx[1], frame[t].new)]
    /\ pc' = [pc EXCEPT ![t] = "L56"]
    /\ UNCHANGED <<current_idx, current_fig, gnuplots, SeqVars, nops, overlap>>

\* line 56: self.current_idx = idx
L56(t) ==
    /\ pc[t] = "L56"
    /\ current_idx' = frame[t].idx[1]
    /\ pc' = [pc EXCEPT ![t] = "L57"]
    /\ UNCHANGED <<instances, current_fig, gnuplots, SeqVars, nops, frame, overlap>>

\* lines 57-58: self.current_fig = instance; return instance
L57(t) ==
    /\ pc[t] = "L57"
    /\ current_fig' = frame[t].instance
    /\ pc' = [pc EXCEPT ![t] = "idle"]
    /\ UNCHANGED <<instances, current_idx, gnuplots, SeqVars, nops, frame, overlap>>

NextThreads ==
    \E t \in Threads :
        \/ \E idx \in Numbers : Call(t, idx)
        \/ L54(t)
        \/ L55_new(t)
        \/ L55_setdefault(t)
        \/ L56(t)
        \/ L57(t)

SpecThreads == Init /\ [][NextThreads]_vars

\* C8: as long as no get_figure call has been started while another was in
\* progress, the pair is consistent whenever all calls have returned; once
\* two calls have overlapped it need not be (C8_Witness).
C8_SequentialCallsKeepPair ==
    (Quiescent /\ ~overlap) =>
        /\ current_idx \in DOMAIN instances
        /\ current_fig = instances[current_idx]

\* two calls for different ids overlapped, both have returned, and
\* current_fig is not the object stored under current_idx
C8_Witness ==
    /\ Quiescent /\ overlap
    /\ frame[1].instance # 0 /\ frame[2].instance # 0
    /\ frame[1].idx # frame[2].idx
    /\ current_idx \in DOMAIN instances
    /\ current_fig # instances[current_idx]

====
